---- MODULE Spec2Model ----
(***************************************************************************)
(* Model of ihashmap.cache: the hook pipeline (Pipeline, PipelineManager,  *)
(* PipelineContext) and the Cache facade over a user-supplied storage      *)
(* backend.  Every call of get/set/update/delete is one action that runs   *)
(* the whole of Pipeline.__call__.wrap: pipeline selection, the before     *)
(* hooks, the wrapped method, the after hooks.  What the call did is kept  *)
(* in `last` (arguments, the pipeline as it was, outcome, returned value,  *)
(* event trace).                                                           *)
(***************************************************************************)
EXTENDS Integers, Sequences, FiniteSets, TLC

VARIABLES
    pipes,      \* class -> operation name -> Pipeline (PipelineManager.pipes)
    instance,   \* class -> the class's own singleton attribute (0 = unset)
    objects,    \* heap of Cache objects: <<[cls, protocol], ...>>
    store,      \* backend -> collection -> key -> record or None
    indexes,    \* the registered indexes, in the order of registration
    last,       \* the last facade call since the hooks changed, and what it did
    hist,       \* history of constructions (the last one: newcls, newret),
                \* class definitions and registrations
    smart       \* smart_hashmap.cache: the PIPELINE_GET of each class of a chain
                \* of subclasses, the actions added so far, the last execution

vars == <<pipes, instance, objects, store, indexes, last, hist, smart>>

----------------------------------------------------------------------------
(* Bounds of the model                                                     *)

MaxHooks == 3          \* hooks registered in the ordering specification
MaxPipeHooks == 2      \* hooks registered in the pipeline specifications
MaxFacadeHooks == 1    \* hooks registered in the facade specification
MaxIndexes == 2        \* indexes defined in the search specification
MaxSmartActions == 2   \* actions added in the smart_hashmap specification

----------------------------------------------------------------------------
(* Values                                                                  *)

None == "None"
Absent == "<absent>"
PRIMARY_KEY == "_id"

Classes == {"Cache", "Sub"}
Ops == {"set", "get", "update", "delete"}
\* The names looked up on a PipelineManager: the four operations and one
\* name that no decorator of the class body has created.
Items == Ops \cup {"extra"}
Backends == {"b1", "b2"}
Collections == {"users", "posts"}
Keys == {"1", "2"}
\* The order in which a backend enumerates its keys.
KeyOrder == <<"1", "2">>
Names == {"ana"}
Fields == {PRIMARY_KEY, "name"}

\* A record (a Python dict with the fields _id and name); a field that the
\* dict does not hold is Absent, a field holding Python's None is None.
Rec(id, nm) == [f \in Fields |-> IF f = PRIMARY_KEY THEN id ELSE nm]

Records == {Rec(id, nm) : id \in Keys \cup {None, Absent}, nm \in Names \cup {Absent}}

\* Python's None where a record is expected (a stored value, a result).
Null == [f \in Fields |-> None]

\* dict.get(field): None for a missing field.
DictGet(value, f) == IF value[f] = Absent THEN None ELSE value[f]

Priorities == {1, 2, 3}
BeforeKinds == {"log", "setarg", "raise"}
AfterKinds == {"log", "setres", "raise"}

NoParent == "<no parent>"
NoPipe == [exists |-> FALSE, parent_pipe |-> NoParent, before |-> <<>>, after |-> <<>>]

\* Pipeline.__init__
NewPipeline(parent_pipe) ==
    [exists |-> TRUE, parent_pipe |-> parent_pipe,
     before |-> <<>>, after |-> <<>>]

\* Action(f, priority, cache_name): id is the registration number of f.
NewAction(id, kind, priority, cache_name) ==
    [id |-> id, kind |-> kind, priority |-> priority, cache_name |-> cache_name]

RECURSIVE SumLen(_, _)
SumLen(S, f) ==
    IF S = {} THEN 0
    ELSE LET x == CHOOSE y \in S : TRUE IN f[x] + SumLen(S \ {x}, f)

\* Number of hooks registered so far, over all pipelines.
NumHooks ==
    SumLen(Classes \X Items,
           [co \in Classes \X Items |->
               IF pipes[co[1]][co[2]].exists
               THEN Len(pipes[co[1]][co[2]].before) + Len(pipes[co[1]][co[2]].after)
               ELSE 0])

----------------------------------------------------------------------------
(* list.sort(key=lambda action: action.priority): a stable sort            *)

RECURSIVE InsertUnstable(_, _)
InsertUnstable(a, sorted) ==
    IF sorted = <<>> THEN <<a>>
    ELSE IF Head(sorted).priority < a.priority
         THEN <<Head(sorted)>> \o InsertUnstable(a, Tail(sorted))
         ELSE <<a>> \o sorted

\* Insert a after every element whose priority is <= a's.
RECURSIVE Insert(_, _)
Insert(a, sorted) ==
    IF sorted = <<>> THEN <<a>>
    ELSE IF Head(sorted).priority <= a.priority
         THEN <<Head(sorted)>> \o Insert(a, Tail(sorted))
         ELSE <<a>> \o sorted

RECURSIVE SortByPriority(_)
SortByPriority(pipe) ==
    IF pipe = <<>> THEN <<>>
    ELSE Insert(pipe[Len(pipe)], SortByPriority(SubSeq(pipe, 1, Len(pipe) - 1)))

----------------------------------------------------------------------------
(* Pipeline                                                                *)

\* Pipeline.pipe_before.  parent_pipe.pipe_before is the bound method, not
\* its result, and list += <method> raises TypeError ('method' object is not
\* iterable); without a parent the own list is copied and sorted.
pipe_before(p) ==
    IF p.parent_pipe # NoParent THEN [error |-> "TypeError", pipe |-> <<>>]
    ELSE [error |-> None, pipe |-> SortByPriority(p.before)]

\* Pipeline.pipe_after, the same with the after list.
pipe_after(p) ==
    IF p.parent_pipe # NoParent THEN [error |-> "TypeError", pipe |-> <<>>]
    ELSE [error |-> None, pipe |-> SortByPriority(p.after)]

----------------------------------------------------------------------------
(* Storage backend (CacheProtocol): a mapping per collection               *)

protocol_get(st, b, name, key, default) ==
    IF st[b][name][key] = Null THEN default ELSE st[b][name][key]

protocol_set(st, b, name, key, value) ==
    [st EXCEPT ![b][name][key] = value]

\* dict.update of the stored mapping with the fields the value holds.
protocol_update(st, b, name, key, value) ==
    LET old == IF st[b][name][key] = Null THEN Rec(Absent, Absent)
               ELSE st[b][name][key]
    IN [st EXCEPT ![b][name][key] =
            [f \in Fields |-> IF value[f] # Absent THEN value[f] ELSE old[f]]]

protocol_delete(st, b, name, key) ==
    [st EXCEPT ![b][name][key] = Null]

protocol_keys(st, b, name) ==
    SelectSeq(KeyOrder, LAMBDA key : st[b][name][key] # Null)

----------------------------------------------------------------------------
(* One call: the PipelineContext together with the backend it works on     *)

NoAction == NewAction(0, None, 0, None)

Event(ev, action, result) == [ev |-> ev, action |-> action, result |-> result]

\* PipelineContext.__init__: result is None, nothing has run.
PipelineContext(op, protocol, st, name, key, value, default) ==
    [f |-> op, protocol |-> protocol, store |-> st,
     name |-> name, key |-> key, value |-> value, default |-> default,
     result |-> Null, error |-> None, trace |-> <<>>]

\* What the hooks of the model do with the context.
HookKey == "2"
HookValue == Rec("2", "bob")
HookResult == Rec("1", "bob")

\* action(ctx): the hook sees the context (its result slot is recorded in
\* the trace) and then logs, replaces the arguments, replaces the result,
\* or raises.
CallAction(ev, action, ctx) ==
    LET seen == [ctx EXCEPT !.trace = Append(@, Event(ev, action, ctx.result))]
    IN CASE action.kind = "setarg" ->
              [seen EXCEPT !.key = HookKey,
                           !.value = IF ctx.value = Null THEN Null ELSE HookValue]
         [] action.kind = "setres" -> [seen EXCEPT !.result = HookResult]
         [] action.kind = "raise" -> [seen EXCEPT !.error = "HookError"]
         [] OTHER -> seen

AppliesAlways(action, ctx) == TRUE

\* action.cache_name in [None, ctx.name]
Applies(action, ctx) == action.cache_name \in {None, ctx.name}

\* The loop of wrap_before / wrap_after over a resolved list; an exception
\* of a hook ends it.
RECURSIVE RunActions(_, _, _)
RunActions(ev, pipe, ctx) ==
    IF pipe = <<>> \/ ctx.error # None THEN ctx
    ELSE RunActions(ev, Tail(pipe),
                    IF Applies(Head(pipe), ctx)
                    THEN CallAction(ev, Head(pipe), ctx) ELSE ctx)

wrap_before(p, ctx) ==
    LET r == pipe_before(p)
    IN IF r.error # None THEN [ctx EXCEPT !.error = r.error]
       ELSE RunActions("before", r.pipe, ctx)

wrap_after(p, ctx) ==
    LET r == pipe_after(p)
    IN IF r.error # None THEN [ctx EXCEPT !.error = r.error]
       ELSE RunActions("after", r.pipe, ctx)

----------------------------------------------------------------------------
(* The wrapped methods of Cache                                            *)

Raise(ctx, error) == [ctx EXCEPT !.error = error]

\* The backend was called: ctx.result = ctx.f(...) gets its return value.
Return(ctx, st, result) ==
    [ctx EXCEPT !.store = st, !.result = result,
                !.trace = Append(@, Event("backend", NoAction, result))]

Cache_set_unstored(ctx) ==
    IF DictGet(ctx.value, PRIMARY_KEY) = None
    THEN Raise(ctx, "ValueError")
    ELSE IF DictGet(ctx.value, PRIMARY_KEY) # None /\ ctx.value[PRIMARY_KEY] # ctx.key
    THEN Raise(ctx, "ValueError")
    ELSE Return(ctx, ctx.store, Null)

Cache_set_unchecked(ctx) ==
    IF DictGet(ctx.value, PRIMARY_KEY) = None
    THEN Raise(ctx, "ValueError")
    ELSE Return(ctx, protocol_set(ctx.store, ctx.protocol, ctx.name, ctx.key, ctx.value), Null)

\* Cache.set
Cache_set(ctx) ==
    IF DictGet(ctx.value, PRIMARY_KEY) = None
    THEN Raise(ctx, "ValueError")
    ELSE IF DictGet(ctx.value, PRIMARY_KEY) # None /\ ctx.value[PRIMARY_KEY] # ctx.key
    THEN Raise(ctx, "ValueError")
    ELSE Return(ctx, protocol_set(ctx.store, ctx.protocol, ctx.name, ctx.key, ctx.value), Null)

\* Cache.get
Cache_get(ctx) ==
    Return(ctx, ctx.store,
           protocol_get(ctx.store, ctx.protocol, ctx.name, ctx.key, ctx.default))

\* Cache.update
Cache_update(ctx) ==
    IF DictGet(ctx.value, PRIMARY_KEY) # None /\ DictGet(ctx.value, PRIMARY_KEY) # ctx.key
    THEN Raise(ctx, "ValueError")
    ELSE Return(ctx, protocol_update(ctx.store, ctx.protocol, ctx.name, ctx.key, ctx.value), Null)

\* Cache.delete
Cache_delete(ctx) ==
    Return(ctx, protocol_delete(ctx.store, ctx.protocol, ctx.name, ctx.key), Null)

\* ctx.f(ctx.cls_or_self, ctx.name, *ctx.args, **ctx.kwargs)
CallF(ctx) ==
    LET entered == [ctx EXCEPT !.trace = Append(@, Event("main", NoAction, ctx.result))]
    IN CASE ctx.f = "set" -> Cache_set(entered)
         [] ctx.f = "get" -> Cache_get(entered)
         [] ctx.f = "update" -> Cache_update(entered)
         [] ctx.f = "delete" -> Cache_delete(entered)
         [] OTHER -> [entered EXCEPT !.result = Null]

wrap_action_main_first(p, ctx) ==
    LET m == CallF(ctx)
        b == IF m.error = None THEN wrap_before(p, m) ELSE m
    IN IF b.error = None THEN wrap_after(p, b) ELSE b

wrap_action_returns_f(p, ctx) ==
    LET b == wrap_before(p, ctx)
        m == IF b.error = None THEN CallF(b) ELSE b
        a == IF m.error = None THEN wrap_after(p, m) ELSE m
    IN [a EXCEPT !.result = m.result]

wrap_action_keeps_going(p, ctx) ==
    LET b == wrap_before(p, ctx)
        m == [CallF([b EXCEPT !.error = None]) EXCEPT !.error = b.error]
    IN IF m.error = None THEN wrap_after(p, m) ELSE m

wrap_action_always_after(p, ctx) ==
    LET b == wrap_before(p, ctx)
        m == IF b.error = None THEN CallF(b) ELSE b
    IN [wrap_after(p, [m EXCEPT !.error = None]) EXCEPT !.error = m.error]

\* Pipeline.wrap_action: before hooks, the wrapped method, after hooks; an
\* exception anywhere ends the call.
wrap_action(p, ctx) ==
    LET b == wrap_before(p, ctx)
        m == IF b.error = None THEN CallF(b) ELSE b
    IN IF m.error = None THEN wrap_after(p, m) ELSE m

----------------------------------------------------------------------------
(* PipelineManager                                                         *)

\* PipelineManager.__getattr__: the pipes after looking item up.
getattr(mpipes, item) ==
    IF mpipes[item].exists THEN mpipes
    ELSE [mpipes EXCEPT ![item] = NewPipeline(NoParent)]

set_parent_every_name(parent, parent_pipes) ==
    [item \in Items |-> NewPipeline(parent)]

\* PipelineManager.set_parent: one child pipeline per pipe of the parent;
\* parent_pipe refers to the pipe of that name in the manager of class parent.
set_parent(parent, parent_pipes) ==
    [item \in Items |-> IF parent_pipes[item].exists THEN NewPipeline(parent)
                        ELSE NoPipe]

\* The class exists once its PIPELINE was built.
Defined(cls) == \E item \in Ops : pipes[cls][item].exists

\* The names for which a manager holds a pipeline.
Present(mpipes) == {item \in Items : mpipes[item].exists}

----------------------------------------------------------------------------
(* smart_hashmap.cache: Pipeline, and the PIPELINE_GET attribute of Cache   *)
(* and of a chain of subclasses, class A(Cache) and class B(A).             *)

SmartClasses == {"Cache", "A", "B"}
SmartBase(cls) == IF cls = "B" THEN "A" ELSE "Cache"

\* Pipeline.__init__
SmartPipeline(parent_pipeline) ==
    [exists |-> TRUE, parent_pipeline |-> parent_pipeline, f |-> None,
     pipe_before |-> <<>>, pipe_after |-> <<>>]
SmartNoPipeline ==
    [exists |-> FALSE, parent_pipeline |-> NoParent, f |-> None,
     pipe_before |-> <<>>, pipe_after |-> <<>>]

\* Action(f, cache_name); id tells the actions apart, the action added at
\* import, shadow_copy, has id 0.
SmartAction(id, cache_name) == [id |-> id, cache_name |-> cache_name]
shadow_copy == SmartAction(0, None)

\* list.insert(i, x) for i >= 0
ListInsert(seq, i, x) ==
    LET k == IF i > Len(seq) THEN Len(seq) ELSE i
    IN SubSeq(seq, 1, k) \o <<x>> \o SubSeq(seq, k + 1, Len(seq))

\* The place add_action inserts at.
insert_position(pipe, pipe_position) ==
    IF pipe_position < 0 THEN Len(pipe) - pipe_position + 1 ELSE pipe_position

SmartEvent(ev, id) == [ev |-> ev, id |-> id]

\* The events of a loop over a list of actions for collection name.
SmartRun(ev, pipe, name) ==
    LET applicable == SelectSeq(pipe, LAMBDA action :
                          action.cache_name = name \/ action.cache_name = None)
    IN [i \in DOMAIN applicable |-> SmartEvent(ev, applicable[i].id)]

\* Pipeline.wrap_before / Pipeline.wrap_after of the pipeline of class cls
smart_wrap_before(cls, name) == SmartRun("before", smart.pipelines[cls].pipe_before, name)
smart_wrap_after(cls, name) == SmartRun("after", smart.pipelines[cls].pipe_after, name)

\* Pipeline.wrap_action of the pipeline of class cls: the events, and the
\* error when the pipeline wraps no function.
smart_wrap_action(cls, name) ==
    LET p == smart.pipelines[cls]
        parent_before == IF p.parent_pipeline # NoParent
                         THEN smart_wrap_before(p.parent_pipeline, name) ELSE <<>>
        parent_after == IF p.parent_pipeline # NoParent
                        THEN smart_wrap_after(p.parent_pipeline, name) ELSE <<>>
        befores == parent_before \o smart_wrap_before(cls, name)
    IN IF p.f = None
       THEN [trace |-> befores, error |-> "TypeError"]
       ELSE [trace |-> befores \o <<SmartEvent("main", 0)>>
                         \o parent_after \o smart_wrap_after(cls, name),
             error |-> None]

SmartNoRun == [cls |-> None, name |-> None, trace |-> <<>>, error |-> None]

\* After import: Cache.PIPELINE_GET wraps get and holds shadow_copy.
SmartInit ==
    [pipelines |-> [cls \in SmartClasses |->
                      IF cls = "Cache"
                      THEN [SmartPipeline(NoParent) EXCEPT
                              !.f = "get", !.pipe_after = <<shadow_copy>>]
                      ELSE SmartNoPipeline],
     added |-> 0,
     run |-> SmartNoRun]

\* class cls(SmartBase(cls)): Cache.__init_subclass__
SmartSubclass(cls) ==
    /\ cls # "Cache"
    /\ ~smart.pipelines[cls].exists
    /\ smart.pipelines[SmartBase(cls)].exists
    /\ smart' = [smart EXCEPT !.pipelines[cls] = SmartPipeline(SmartBase(cls)),
                              !.run = SmartNoRun]
    /\ UNCHANGED <<pipes, instance, objects, store, indexes, last, hist>>

\* cls.PIPELINE_GET(f): Pipeline.__call__
SmartDecorate(cls) ==
    /\ smart.pipelines[cls].exists
    /\ smart.pipelines[cls].f = None
    /\ smart' = [smart EXCEPT !.pipelines[cls].f = "get", !.run = SmartNoRun]
    /\ UNCHANGED <<pipes, instance, objects, store, indexes, last, hist>>

\* cls.PIPELINE_GET.add_action(position, cache_name, pipe_position)(f)
add_action(cls, position, cache_name, pipe_position) ==
    /\ smart.pipelines[cls].exists
    /\ LET action == SmartAction(smart.added + 1, cache_name)
           p == smart.pipelines[cls]
       IN smart' = [smart EXCEPT
             !.pipelines[cls] =
                 IF position = "before"
                 THEN [p EXCEPT !.pipe_before =
                         ListInsert(@, insert_position(@, pipe_position), action)]
                 ELSE IF position = "after"
                 THEN [p EXCEPT !.pipe_after =
                         ListInsert(@, insert_position(@, pipe_position), action)]
                 ELSE p,
             !.added = @ + 1,
             !.run = SmartNoRun]
    /\ UNCHANGED <<pipes, instance, objects, store, indexes, last, hist>>

\* cls.PIPELINE_GET.wrap_action(ctx) for a ctx of collection name
SmartExecute(cls, name) ==
    /\ smart.pipelines[cls].exists
    /\ \E out \in {smart_wrap_action(cls, name)} :
          smart' = [smart EXCEPT !.run = [cls |-> cls, name |-> name,
                                          trace |-> out.trace, error |-> out.error]]
    /\ UNCHANGED <<pipes, instance, objects, store, indexes, last, hist>>

----------------------------------------------------------------------------
(* State after the module was imported: class Cache with the four          *)
(* pipelines its decorators created, no subclass, no instance, empty       *)
(* backends.                                                               *)

NoCall ==
    [o |-> 0, cls |-> None, f |-> None, name |-> None, key |-> None,
     value |-> Null, default |-> Null, error |-> None, result |-> Null,
     trace |-> <<>>, protocol |-> None, pipeline |-> NoPipe, parent |-> NoPipe,
     changed |-> FALSE, results |-> <<>>, hits |-> <<>>, fetched |-> <<>>,
     returned |-> <<>>, query |-> Null]

Init ==
    /\ pipes = [cls \in Classes |->
                  [item \in Items |-> IF cls = "Cache" /\ item \in Ops
                                      THEN NewPipeline(NoParent)
                                      ELSE NoPipe]]
    /\ instance = [cls \in Classes |-> 0]
    /\ objects = <<>>
    /\ store = [b \in Backends |-> [c \in Collections |-> [k \in Keys |-> Null]]]
    /\ indexes = <<>>
    /\ last = NoCall
    /\ hist = [ncache |-> 0, first |-> None, returned |-> {},
               regs |-> <<>>, mirrored |-> {}, newcls |-> None, newret |-> 0]
    /\ smart = SmartInit

----------------------------------------------------------------------------
(* Operations                                                              *)

\* class Sub(Cache): Cache.__init_subclass__
DefineSubclass ==
    /\ ~Defined("Sub")
    /\ pipes' = [pipes EXCEPT !["Sub"] = set_parent("Cache", pipes["Cache"])]
    /\ hist' = [hist EXCEPT !.mirrored = Present(pipes["Cache"])]
    /\ UNCHANGED <<smart, instance, objects, store, indexes, last>>

before_on_base(cls, item, kind, priority, cache_name) ==
    /\ Defined(cls)
    /\ pipes' = [pipes EXCEPT
                   !["Cache"] = [getattr(pipes["Cache"], item) EXCEPT
                               ![item].before = Append(@,
                                   NewAction(NumHooks + 1, kind, priority, cache_name))]]
    /\ last' = NoCall
    /\ hist' = [hist EXCEPT !.regs = Append(@, cls)]
    /\ UNCHANGED <<smart, instance, objects, store, indexes>>

\* cls.PIPELINE.<item>.before(priority, cache_name)(f); the record of the
\* last call is of the hooks as they were, and is dropped.
before(cls, item, kind, priority, cache_name) ==
    /\ Defined(cls)
    /\ pipes' = [pipes EXCEPT
                   ![cls] = [getattr(pipes[cls], item) EXCEPT
                               ![item].before = Append(@,
                                   NewAction(NumHooks + 1, kind, priority, cache_name))]]
    /\ last' = NoCall
    /\ hist' = [hist EXCEPT !.regs = Append(@, cls)]
    /\ UNCHANGED <<smart, instance, objects, store, indexes>>

\* cls.PIPELINE.<item>.after(priority, cache_name)(f)
after(cls, item, kind, priority, cache_name) ==
    /\ Defined(cls)
    /\ pipes' = [pipes EXCEPT
                   ![cls] = [getattr(pipes[cls], item) EXCEPT
                               ![item].after = Append(@,
                                   NewAction(NumHooks + 1, kind, priority, cache_name))]]
    /\ last' = NoCall
    /\ hist' = [hist EXCEPT !.regs = Append(@, cls)]
    /\ UNCHANGED <<smart, instance, objects, store, indexes>>

LookupUnset(cls) == 0

\* cls.__INSTANCE__ as the attribute lookup finds it: the class's own
\* attribute, else the base class's.
Lookup(cls) ==
    IF instance[cls] # 0 THEN instance[cls] ELSE instance["Cache"]

\* isinstance(object of class c, cls)
IsInstance(c, cls) == c = cls \/ cls = "Cache"

\* cls(protocol): Cache.__new__, then Cache.__init__ when __new__ returned
\* an instance of cls.
Construct(cls, protocol) ==
    /\ Defined(cls)
    /\ LET isNew == Lookup(cls) = 0
           ret == IF isNew THEN Len(objects) + 1 ELSE Lookup(cls)
           made == IF isNew
                   THEN Append(objects, [cls |-> cls, protocol |-> None])
                   ELSE objects
       IN /\ instance' = IF isNew THEN [instance EXCEPT ![cls] = ret] ELSE instance
          /\ objects' = IF IsInstance(made[ret].cls, cls)
                        THEN [made EXCEPT ![ret].protocol = protocol]
                        ELSE made
          /\ hist' = [hist EXCEPT
                        !.ncache = IF cls = "Cache" /\ @ < 2 THEN @ + 1 ELSE @,
                        !.first = IF cls = "Cache" /\ @ = None THEN protocol ELSE @,
                        !.returned = IF cls = "Cache" THEN @ \cup {ret} ELSE @,
                        !.newcls = cls, !.newret = ret]
    /\ UNCHANGED <<smart, pipes, store, indexes, last>>

\* objects[o].<f>(name, key, ...): Pipeline.__call__.wrap
Call(o, f, name, key, value, default) ==
    /\ o \in 1..Len(objects)
    /\ LET cls == objects[o].cls
           mpipes == getattr(pipes[cls], f)
           ctx == wrap_action(mpipes[f],
                      PipelineContext(f, objects[o].protocol, store,
                                      name, key, value, default))
       IN /\ pipes' = [pipes EXCEPT ![cls] = mpipes]
          /\ store' = ctx.store
          /\ last' = [o |-> o, cls |-> cls, f |-> f, name |-> name, key |-> key,
                      value |-> value, default |-> default, error |-> ctx.error,
                      result |-> IF ctx.error = None THEN ctx.result ELSE Null,
                      trace |-> ctx.trace, protocol |-> objects[o].protocol,
                      pipeline |-> mpipes[f],
                      parent |-> IF mpipes[f].parent_pipe = NoParent THEN NoPipe
                                 ELSE pipes[mpipes[f].parent_pipe][f],
                      changed |-> ctx.store # store, results |-> <<>>,
                      hits |-> <<>>, fetched |-> <<>>, returned |-> <<>>,
                      query |-> Null]
    /\ UNCHANGED <<smart, instance, objects, indexes, hist>>

----------------------------------------------------------------------------
(* Queries, predicate matching and the index contract                      *)

\* A search query maps fields to an expected value or to a predicate; a
\* field the query does not hold is Absent.  The one predicate of the model
\* is lambda v: v is None.
IsNoneFn == "<lambda v: v is None>"
Queries ==
    {[f \in Fields |-> IF f = PRIMARY_KEY THEN id ELSE nm] :
        id \in {Absent, "1"}, nm \in {Absent, "ana", IsNoneFn}}
QueryKeys(query) == {f \in Fields : query[f] # Absent}

\* One field of a record against the expected value or predicate.
FieldMatches(value, f, expected) ==
    IF expected = IsNoneFn THEN DictGet(value, f) = None
    ELSE DictGet(value, f) = expected

\* match_query(entity, query): the entity when every field of the query is
\* satisfied, else nothing.
match_query(entity, query) ==
    IF \A f \in QueryKeys(query) : FieldMatches(entity, f, query[f])
    THEN <<entity>> ELSE <<>>

\* An index: the collection it belongs to and the fields it covers.
NewIndex(cache_name, keys) == [cache_name |-> cache_name, keys |-> keys]

\* Index.find_index_for_cache(name)
find_index_for_cache(name) ==
    SelectSeq(indexes, LAMBDA index : index.cache_name = name)

\* {PRIMARY_KEY: key}
Stub(key) == Rec(key, Absent)

\* Index.combine(name, hit_indexes, search_query): the stubs of the records
\* of the collection that satisfy the query on the fields the hit indexes
\* cover, and those fields.  The indexes are consistent with the store.
Index_combine(st, b, name, hit_indexes, search_query) ==
    LET covered == UNION {hit_indexes[i].keys \cap QueryKeys(search_query) :
                            i \in DOMAIN hit_indexes}
        keys == SelectSeq(protocol_keys(st, b, name),
                    LAMBDA key : \A f \in covered :
                        FieldMatches(st[b][name][key], f, search_query[f]))
    IN IF hit_indexes = <<>> THEN [index |-> <<>>, keys |-> {}]
       ELSE [index |-> [i \in DOMAIN keys |-> Stub(keys[i])], keys |-> covered]

----------------------------------------------------------------------------
(* Cache.search and Cache.all                                              *)

\* The score of an index for a query: matched_percentage, a fraction kept as
\* <<numerator, denominator>>, or 0.
ScoreNoPrimaryRule(index, search_query) ==
    LET matched_keys == index.keys \cap QueryKeys(search_query)
        n == Cardinality(QueryKeys(search_query))
    IN <<Cardinality(matched_keys), IF n = 0 THEN 1 ELSE n>>

Score(index, search_query) ==
    LET matched_keys == index.keys \cap QueryKeys(search_query)
        n == Cardinality(QueryKeys(search_query))
        matched_percentage == <<Cardinality(matched_keys), IF n = 0 THEN 1 ELSE n>>
    IN IF Cardinality(index.keys) = 1 \/ matched_keys \ {PRIMARY_KEY} # {}
       THEN matched_percentage ELSE <<0, 1>>

\* [index for index, match in zip(indexes, index_match) if match > 0]
HitIndexes(name, search_query) ==
    SelectSeq(find_index_for_cache(name),
              LAMBDA index : Score(index, search_query)[1] > 0)

\* The state of a running search or all: the backend, the keys fetched, the
\* values the fetches returned, the result so far, the hook events.
Scan(st) ==
    [store |-> st, hits |-> <<>>, fetched |-> <<>>, returned |-> <<>>,
     results |-> <<>>, trace |-> <<>>, error |-> None]

\* self.get(name, key, default=None): through the get pipeline of the class.
GetThroughPipeline(cls, b, name, key, sc) ==
    LET ctx == wrap_action(getattr(pipes[cls], "get")["get"],
                   [PipelineContext("get", b, sc.store, name, key, Null, Null)
                       EXCEPT !.trace = sc.trace])
    IN [sc EXCEPT !.store = ctx.store, !.trace = ctx.trace, !.error = ctx.error,
                  !.fetched = Append(@, key),
                  !.returned = IF ctx.error = None THEN Append(@, ctx.result) ELSE @]

GetFromProtocol_through_get(cls, b, name, key, sc) ==
    LET ctx == wrap_action(getattr(pipes[cls], "get")["get"],
                   [PipelineContext("get", b, sc.store, name, key, Null, Null)
                       EXCEPT !.trace = sc.trace])
    IN [sc EXCEPT !.store = ctx.store, !.trace = ctx.trace, !.error = ctx.error,
                  !.fetched = Append(@, key),
                  !.returned = IF ctx.error = None THEN Append(@, ctx.result) ELSE @]

\* self.protocol.get(name, key)
GetFromProtocol(cls, b, name, key, sc) ==
    [sc EXCEPT !.fetched = Append(@, key),
               !.returned = Append(@, protocol_get(sc.store, b, name, key, Null))]

\* The loop of search over the candidate stubs.
RECURSIVE SearchLoop(_, _, _, _, _, _)
SearchLoop(cls, b, name, matched, query, sc) ==
    IF matched = <<>> \/ sc.error # None THEN sc
    ELSE LET got == GetFromProtocol(cls, b, name, Head(matched)[PRIMARY_KEY], sc)
             entity == got.returned[Len(got.returned)]
         IN SearchLoop(cls, b, name, Tail(matched), query,
                IF got.error # None THEN got
                ELSE [got EXCEPT !.results = @ \o match_query(entity, query)])

Cache_search_no_scan(cls, b, name, search_query, st) ==
    LET hit_indexes == HitIndexes(name, search_query)
        combined == Index_combine(st, b, name, hit_indexes, search_query)
        rest_query == [f \in Fields |-> IF f \in combined.keys THEN Absent
                                        ELSE search_query[f]]
    IN [SearchLoop(cls, b, name, combined.index,
                   IF hit_indexes # <<>> THEN rest_query ELSE search_query, Scan(st))
        EXCEPT !.hits = hit_indexes]

Cache_search_only_scan(cls, b, name, search_query, st) ==
    LET hit_indexes == HitIndexes(name, search_query)
        combined == Index_combine(st, b, name, hit_indexes, search_query)
        rest_query == [f \in Fields |-> IF f \in combined.keys THEN Absent
                                        ELSE search_query[f]]
        keys == protocol_keys(st, b, name)
        matched == IF hit_indexes = <<>>
                   THEN [i \in DOMAIN keys |-> Stub(keys[i])]
                   ELSE combined.index
    IN [(IF hit_indexes = <<>>
         THEN SearchLoop(cls, b, name, matched, search_query, Scan(st))
         ELSE Scan(st))
        EXCEPT !.hits = hit_indexes]

\* Cache.search: the hit indexes and the outcome of the loop.
Cache_search(cls, b, name, search_query, st) ==
    LET hit_indexes == HitIndexes(name, search_query)
        combined == Index_combine(st, b, name, hit_indexes, search_query)
        rest_query == [f \in Fields |-> IF f \in combined.keys THEN Absent
                                        ELSE search_query[f]]
        keys == protocol_keys(st, b, name)
        matched == IF hit_indexes = <<>>
                   THEN [i \in DOMAIN keys |-> Stub(keys[i])]
                   ELSE combined.index
    IN [SearchLoop(cls, b, name, matched,
                   IF hit_indexes # <<>> THEN rest_query ELSE search_query, Scan(st))
        EXCEPT !.hits = hit_indexes]

\* The loop of all over the enumerated keys; a value that is None is not
\* yielded.
Yield(got) ==
    IF got.error # None \/ got.returned[Len(got.returned)] = Null THEN got
    ELSE [got EXCEPT !.results = Append(@, got.returned[Len(got.returned)])]

RECURSIVE AllLoop(_, _, _, _, _)
AllLoop(cls, b, name, keys, sc) ==
    IF keys = <<>> \/ sc.error # None THEN sc
    ELSE CHOOSE out \in {AllLoop(cls, b, name, Tail(keys), Yield(got)) :
                            got \in {GetThroughPipeline(cls, b, name, Head(keys), sc)}} : TRUE

RECURSIVE FindAllLoop(_, _, _, _, _)
FindAllLoop(cls, b, name, keys, sc) ==
    IF keys = <<>> THEN sc
    ELSE LET got == GetFromProtocol(cls, b, name, Head(keys), sc)
         IN FindAllLoop(cls, b, name, Tail(keys),
                [got EXCEPT !.results = Append(@, got.returned[Len(got.returned)])])

Cache_all_as_find_all(cls, b, name, st) ==
    FindAllLoop(cls, b, name, protocol_keys(st, b, name), Scan(st))

\* Cache.all, consumed to its end.
Cache_all(cls, b, name, st) ==
    AllLoop(cls, b, name, protocol_keys(st, b, name), Scan(st))

\* An index class for collection cache_name over the fields keys is defined.
DefineIndex(cache_name, keys) ==
    /\ indexes' = Append(indexes, NewIndex(cache_name, keys))
    /\ last' = NoCall
    /\ UNCHANGED <<smart, pipes, instance, objects, store, hist>>

\* objects[o].search(name, search_query)
Search(o, name, search_query) ==
    /\ o \in 1..Len(objects)
    /\ \E cls \in {objects[o].cls} :
       \E sc \in {Cache_search(cls, objects[o].protocol, name, search_query, store)} :
          /\ store' = sc.store
          /\ last' = [NoCall EXCEPT
                        !.o = o, !.cls = cls, !.f = "search", !.name = name,
                        !.query = search_query, !.protocol = objects[o].protocol,
                        !.error = sc.error, !.trace = sc.trace,
                        !.changed = sc.store # store,
                        !.results = IF sc.error = None THEN sc.results ELSE <<>>,
                        !.hits = sc.hits, !.fetched = sc.fetched,
                        !.returned = sc.returned]
    /\ UNCHANGED <<smart, pipes, instance, objects, indexes, hist>>

\* list(objects[o].all(name))
All(o, name) ==
    /\ o \in 1..Len(objects)
    /\ \E cls \in {objects[o].cls} :
       \E sc \in {Cache_all(cls, objects[o].protocol, name, store)} :
          /\ store' = sc.store
          /\ pipes' = [pipes EXCEPT ![cls] = getattr(pipes[cls], "get")]
          /\ last' = [NoCall EXCEPT
                        !.o = o, !.cls = cls, !.f = "all", !.name = name,
                        !.protocol = objects[o].protocol,
                        !.pipeline = getattr(pipes[cls], "get")["get"],
                        !.error = sc.error, !.trace = sc.trace,
                        !.changed = sc.store # store,
                        !.results = IF sc.error = None THEN sc.results ELSE <<>>,
                        !.fetched = sc.fetched, !.returned = sc.returned]
    /\ UNCHANGED <<smart, instance, objects, indexes, hist>>

----------------------------------------------------------------------------
(* Specification of the facade: validation and storage on the Cache       *)
(* singleton.  One backend, one collection, every record as argument; at   *)
(* most MaxFacadeHooks hooks, of the kinds that replace the arguments or   *)
(* the result.                                                             *)

FacadeNew == Construct("Cache", "b1")

FacadeHook ==
    /\ NumHooks < MaxFacadeHooks
    /\ \/ before("Cache", "set", "setarg", 1, None)
       \/ after("Cache", "get", "setres", 1, None)

FacadeSet ==
    \E o \in 1..Len(objects), key \in Keys, value \in Records :
        Call(o, "set", "users", key, value, Null)

FacadeGet ==
    \E o \in 1..Len(objects), key \in Keys, default \in {Null, Rec("1", "ana")} :
        Call(o, "get", "users", key, Null, default)

FacadeUpdate ==
    \E o \in 1..Len(objects), key \in Keys, value \in Records :
        Call(o, "update", "users", key, value, Null)

FacadeDelete ==
    \E o \in 1..Len(objects), key \in Keys :
        Call(o, "delete", "users", key, Null, Null)

NextFacade ==
    \/ FacadeNew
    \/ FacadeHook
    \/ FacadeSet
    \/ FacadeGet
    \/ FacadeUpdate
    \/ FacadeDelete

SpecFacade == Init /\ [][NextFacade]_vars

----------------------------------------------------------------------------
(* Specification of the singleton: constructions with either backend, for  *)
(* the class and its subclass, and calls that show the backend in use.     *)

SingletonNew == \E cls \in Classes, protocol \in Backends : Construct(cls, protocol)

SingletonSet ==
    \E o \in 1..Len(objects) : Call(o, "set", "users", "1", Rec("1", "ana"), Null)

SingletonGet ==
    \E o \in 1..Len(objects) : Call(o, "get", "users", "1", Null, Null)

SingletonDelete ==
    \E o \in 1..Len(objects) : Call(o, "delete", "users", "1", Null, Null)

NextSingleton ==
    \/ DefineSubclass
    \/ SingletonNew
    \/ SingletonSet
    \/ SingletonGet
    \/ SingletonDelete

SpecSingleton == Init /\ [][NextSingleton]_vars

----------------------------------------------------------------------------
(* Specification of the hook order: up to MaxHooks logging hooks of any    *)
(* priority and filter on the get pipeline of Cache, and get calls on      *)
(* every collection.                                                       *)

OrderNew == Construct("Cache", "b1")

OrderBefore ==
    /\ NumHooks < MaxHooks
    /\ \E priority \in Priorities, cache_name \in {None, "users"} :
          before("Cache", "get", "log", priority, cache_name)

OrderAfter ==
    /\ NumHooks < MaxHooks
    /\ \E priority \in Priorities, cache_name \in {None, "users"} :
          after("Cache", "get", "log", priority, cache_name)

OrderGet ==
    \E o \in 1..Len(objects), name \in Collections :
        Call(o, "get", name, "1", Null, Null)

NextOrder ==
    \/ OrderNew
    \/ OrderBefore
    \/ OrderAfter
    \/ OrderGet

SpecOrder == Init /\ [][NextOrder]_vars

----------------------------------------------------------------------------
(* Specification of the pipeline: up to MaxPipeHooks hooks of every kind   *)
(* on the get and set pipelines of Cache, and get and set calls on the     *)
(* singleton.                                                              *)

PipeNew == Construct("Cache", "b1")

PipeBefore ==
    /\ NumHooks < MaxPipeHooks
    /\ \/ \E item \in {"get", "set"}, kind \in BeforeKinds :
             before("Cache", item, kind, 1, None)
       \/ before("Cache", "update", "log", 1, None)

PipeAfter ==
    /\ NumHooks < MaxPipeHooks
    /\ \/ \E item \in {"get", "set"}, kind \in AfterKinds :
             after("Cache", item, kind, 1, None)
       \/ after("Cache", "update", "log", 1, None)

PipeGet ==
    \E o \in 1..Len(objects) : Call(o, "get", "users", "1", Null, Null)

PipeSet ==
    \E o \in 1..Len(objects), id \in {"1", "2", Absent} :
        Call(o, "set", "users", "1", Rec(id, "ana"), Null)

PipeUpdate ==
    \E o \in 1..Len(objects), id \in {"2", Absent} :
        Call(o, "update", "users", "1", Rec(id, "ana"), Null)

NextPipe ==
    \/ PipeNew
    \/ PipeBefore
    \/ PipeAfter
    \/ PipeGet
    \/ PipeSet
    \/ PipeUpdate

SpecPipe == Init /\ [][NextPipe]_vars

----------------------------------------------------------------------------
(* Specification of search: one Cache over backend b1, up to MaxIndexes    *)
(* indexes, a hook after get that replaces the result, valid records       *)
(* stored and deleted in collection users, and searches of users.          *)

IndexChoices ==
    {NewIndex("users", {PRIMARY_KEY}), NewIndex("users", {"name"}),
     NewIndex("users", {PRIMARY_KEY, "name"}), NewIndex("posts", {"name"})}

SearchNew == Construct("Cache", "b1")

SearchIndex ==
    /\ Len(indexes) < MaxIndexes
    /\ \E index \in IndexChoices : DefineIndex(index.cache_name, index.keys)

SearchHook ==
    /\ pipes["Cache"]["get"].after = <<>>
    /\ after("Cache", "get", "setres", 1, None)

SearchSet ==
    \E o \in 1..Len(objects), key \in Keys, nm \in Names \cup {Absent} :
        Call(o, "set", "users", key, Rec(key, nm), Null)

SearchDelete ==
    \E o \in 1..Len(objects), key \in Keys :
        Call(o, "delete", "users", key, Null, Null)

SearchQuery ==
    \E o \in 1..Len(objects), search_query \in Queries :
        Search(o, "users", search_query)

NextSearch ==
    \/ SearchNew
    \/ SearchIndex
    \/ SearchHook
    \/ SearchSet
    \/ SearchDelete
    \/ SearchQuery

SpecSearch == Init /\ [][NextSearch]_vars

----------------------------------------------------------------------------
(* Specification of all: one Cache over backend b1, up to MaxPipeHooks     *)
(* hooks of every kind on the get pipeline, valid records stored and       *)
(* deleted in collection users, and all(users) consumed to its end.        *)

AllNew == Construct("Cache", "b1")

AllBefore ==
    /\ NumHooks < MaxPipeHooks
    /\ \E kind \in BeforeKinds : before("Cache", "get", kind, 1, None)

AllAfter ==
    /\ NumHooks < MaxPipeHooks
    /\ \E kind \in AfterKinds : after("Cache", "get", kind, 1, None)

AllSet ==
    \E o \in 1..Len(objects), key \in Keys, nm \in Names \cup {Absent} :
        Call(o, "set", "users", key, Rec(key, nm), Null)

AllDelete ==
    \E o \in 1..Len(objects), key \in Keys :
        Call(o, "delete", "users", key, Null, Null)

AllCall == \E o \in 1..Len(objects) : All(o, "users")

NextAll ==
    \/ AllNew
    \/ AllBefore
    \/ AllAfter
    \/ AllSet
    \/ AllDelete
    \/ AllCall

SpecAll == Init /\ [][NextAll]_vars

----------------------------------------------------------------------------
(* Specification of inheritance: class Sub(Cache), instances of both       *)
(* classes, up to MaxPipeHooks logging hooks on the get pipelines of the   *)
(* class and of the subclass, and get calls on the instances.              *)

InheritNew == \E cls \in Classes : Construct(cls, "b1")

InheritBefore ==
    /\ NumHooks < MaxPipeHooks
    /\ \E cls \in Classes, priority \in {1, 2} :
          before(cls, "get", "log", priority, None)

InheritAfter ==
    /\ NumHooks < MaxPipeHooks
    /\ \E cls \in Classes, priority \in {1, 2} :
          after(cls, "get", "log", priority, None)

InheritGet ==
    \E o \in 1..Len(objects) : Call(o, "get", "users", "1", Null, Null)

NextInherit ==
    \/ DefineSubclass
    \/ InheritNew
    \/ InheritBefore
    \/ InheritAfter
    \/ InheritGet

SpecInherit == Init /\ [][NextInherit]_vars

----------------------------------------------------------------------------
(* Specification of lazy pipelines: class Sub(Cache) defined before or     *)
(* after the name extra is first looked up in the manager of Cache,        *)
(* instances of both classes, up to MaxPipeHooks logging hooks on the      *)
(* pipelines named extra, and calls of a function wrapped by               *)
(* Cache.PIPELINE.extra on the instances.                                  *)

LazyNew == \E cls \in Classes : Construct(cls, "b1")

LazyBefore ==
    /\ NumHooks < MaxPipeHooks
    /\ \E cls \in Classes : before(cls, "extra", "log", 1, None)

LazyAfter ==
    /\ NumHooks < MaxPipeHooks
    /\ \E cls \in Classes : after(cls, "extra", "log", 1, None)

LazyCall ==
    \E o \in 1..Len(objects) : Call(o, "extra", "users", "1", Null, Null)

NextLazy ==
    \/ DefineSubclass
    \/ LazyNew
    \/ LazyBefore
    \/ LazyAfter
    \/ LazyCall

SpecLazy == Init /\ [][NextLazy]_vars

----------------------------------------------------------------------------
(* Specification of smart_hashmap: the subclass chain Cache, A, B, up to   *)
(* MaxSmartActions actions added to the PIPELINE_GET of the classes, and   *)
(* executions of each PIPELINE_GET for collection users.                   *)

SmartDefine == \E cls \in SmartClasses : SmartSubclass(cls)

SmartWrap == \E cls \in SmartClasses : SmartDecorate(cls)

SmartAdd ==
    /\ smart.added < MaxSmartActions
    /\ \E cls \in SmartClasses :
          \/ \E cache_name \in {None, "posts"} : add_action(cls, "before", cache_name, -1)
          \/ add_action(cls, "before", None, 0)
          \/ add_action(cls, "after", None, -1)

SmartCall == \E cls \in SmartClasses : SmartExecute(cls, "users")

NextSmart ==
    \/ SmartDefine
    \/ SmartWrap
    \/ SmartAdd
    \/ SmartCall

SpecSmart == Init /\ [][NextSmart]_vars

----------------------------------------------------------------------------
(* Properties                                                              *)

\* The hook events of the last call, by phase, and the kinds that ran.
Hooked(ev) == SelectSeq(last.trace, LAMBDA e : e.ev = ev)
Ran(kind) == \E i \in DOMAIN last.trace : last.trace[i].action.kind = kind
BackendCalls == SelectSeq(last.trace, LAMBDA e : e.ev = "backend")

\* What get(name, key) on the receiver of the last call does in this state.
GetBack ==
    wrap_action(pipes[last.cls]["get"],
                PipelineContext("get", objects[last.o].protocol, store,
                                last.name, last.key, Null, Null))

GetBackAltered ==
    \E i \in DOMAIN GetBack.trace : GetBack.trace[i].action.kind \in {"setarg", "setres"}

\* C1: after set(c, k, r) with r[_id] = k has returned, and when no hook
\* replaces arguments or results, get(c, k) returns a record equal to r.
C1_RoundTrip ==
    (/\ last.f = "set" /\ last.error = None
     /\ last.value[PRIMARY_KEY] = last.key
     /\ ~Ran("setarg") /\ ~Ran("setres") /\ ~GetBackAltered)
    => (GetBack.error = None /\ GetBack.result = last.value)

C1_Witness ==
    /\ last.f = "set" /\ last.error = None
    /\ last.value = Rec("2", "ana")
    /\ ~Ran("setarg") /\ ~Ran("setres") /\ ~GetBackAltered
    /\ GetBack.result = Rec("2", "ana")

\* C2: set(c, k, r) raises the invalid-record error (ValueError) when r has
\* no primary key and when its primary key differs from k; in every other
\* case it calls the backend's set, which stores r under (c, k), and
\* returns without error.  (Calls whose arguments a hook replaced aside.)
C2_SetValidation ==
    (last.f = "set" /\ ~Ran("setarg") /\ last.error # "HookError")
    => IF last.value[PRIMARY_KEY] = Absent \/ last.value[PRIMARY_KEY] # last.key
       THEN last.error = "ValueError" /\ Len(BackendCalls) = 0
       ELSE /\ last.error = None
            /\ Len(BackendCalls) = 1
            /\ store[last.protocol][last.name][last.key] = last.value

C2_Witness ==
    /\ last.f = "set" /\ ~Ran("setarg")
    /\ last.key = "1" /\ last.value = Rec("2", "ana")
    /\ last.error = "ValueError"

\* C3: update(c, k, p) raises when p holds the primary-key field with a
\* value different from k, and otherwise (the field is missing, or equals
\* k) calls the backend's update and returns without error.
C3_UpdateValidation ==
    (last.f = "update" /\ ~Ran("setarg") /\ last.error # "HookError")
    => IF last.value[PRIMARY_KEY] # Absent /\ last.value[PRIMARY_KEY] # last.key
       THEN last.error = "ValueError" /\ Len(BackendCalls) = 0
       ELSE last.error = None /\ Len(BackendCalls) = 1

\* The ids of the actions of a sequence of events or of actions.
EventIds(events) == [i \in DOMAIN events |-> events[i].action.id]
ActionIds(pipe) == [i \in DOMAIN pipe |-> pipe[i].id]

\* The registered actions of a list that apply to collection name.
Applicable(pipe, name) ==
    SelectSeq(pipe, LAMBDA action : action.cache_name \in {None, name})

\* The events run each action of pipe that applies to the call exactly
\* once, by ascending priority and, for equal priorities, in the order of
\* registration (ascending id).
InOrder(events, pipe) ==
    /\ Len(events) = Len(Applicable(pipe, last.name))
    /\ {events[i].action : i \in DOMAIN events}
         = {pipe[i] : i \in {j \in DOMAIN pipe : pipe[j].cache_name \in {None, last.name}}}
    /\ \A i, j \in DOMAIN events :
          i < j => \/ events[i].action.priority < events[j].action.priority
                   \/ /\ events[i].action.priority = events[j].action.priority
                      /\ events[i].action.id < events[j].action.id

C5_CollectionFilter ==
    (last.f # None /\ last.error = None)
    => /\ \A i \in DOMAIN last.trace :
             last.trace[i].ev \in {"before", "after"}
             => last.trace[i].action.cache_name \in {None, last.name}
       /\ \A i \in DOMAIN last.pipeline.before :
             last.pipeline.before[i].cache_name = None
             => \E j \in DOMAIN last.trace :
                   /\ last.trace[j].ev = "before"
                   /\ last.trace[j].action = last.pipeline.before[i]
       /\ \A i \in DOMAIN last.pipeline.after :
             last.pipeline.after[i].cache_name = None
             => \E j \in DOMAIN last.trace :
                   /\ last.trace[j].ev = "after"
                   /\ last.trace[j].action = last.pipeline.after[i]

\* A call on "posts" with a before hook for "users", which did not run, and
\* an after hook for "users" and one without filter, of which only the
\* latter ran.
C5_Witness ==
    /\ last.f = "get" /\ last.error = None /\ last.name = "posts"
    /\ \E i \in DOMAIN last.pipeline.before :
          last.pipeline.before[i].cache_name = "users"
    /\ \E i \in DOMAIN last.pipeline.after :
          last.pipeline.after[i].cache_name = "users"
    /\ Len(Hooked("before")) = 0
    /\ Len(Hooked("after")) = 1

\* C6: a call on an instance of a subclass runs every hook of the base
\* class's pipeline and every hook of the subclass's pipeline exactly once,
\* parent hooks first, for the before and the after phase, and completes
\* normally.
C6_SubclassHooks ==
    (last.f # None /\ last.cls = "Sub")
    => /\ last.error = None
       /\ EventIds(Hooked("before"))
            = ActionIds(SortByPriority(last.parent.before)
                        \o SortByPriority(last.pipeline.before))
       /\ EventIds(Hooked("after"))
            = ActionIds(SortByPriority(last.parent.after)
                        \o SortByPriority(last.pipeline.after))

\* C7: every Cache(backend) call returns the same object, and at most one
\* object of class Cache exists.
C7_Singleton ==
    /\ Cardinality(hist.returned) <= 1
    /\ Cardinality({o \in DOMAIN objects : objects[o].cls = "Cache"}) <= 1

C7_Witness ==
    /\ hist.ncache = 2
    /\ hist.returned = {instance["Cache"]}

\* C8: after the first construction Cache(b1) the singleton stays bound to
\* b1, whatever backend later constructions pass.
C8_FirstBackendWins ==
    instance["Cache"] # 0 => objects[instance["Cache"]].protocol = hist.first

\* Position of the backend call in the trace of the last call.
BackendAt == CHOOSE i \in DOMAIN last.trace : last.trace[i].ev = "backend"

\* C9: in a call that raises no error every applicable before hook has run
\* before the backend operation is invoked, the backend operation is
\* invoked exactly once, and every applicable after hook runs after it.
C9_BeforeMainAfter ==
    (last.f # None /\ last.error = None)
    => /\ Len(BackendCalls) = 1
       /\ Len(Hooked("before")) = Len(Applicable(last.pipeline.before, last.name))
       /\ Len(Hooked("after")) = Len(Applicable(last.pipeline.after, last.name))
       /\ \A i \in DOMAIN last.trace :
             /\ last.trace[i].ev = "before" => i < BackendAt
             /\ last.trace[i].ev = "after" => i > BackendAt

C9_Witness ==
    /\ last.f = "set" /\ last.error = None
    /\ Len(Hooked("before")) = 1
    /\ Len(Hooked("after")) = 1
    /\ Len(last.trace) = 4

\* C10: the caller receives the result slot as the last after hook left
\* it: the replacement when an after hook replaced ctx.result, else what
\* the backend operation returned; and every before hook finds the result
\* slot empty.
C10_Result ==
    /\ \A i \in DOMAIN last.trace :
          last.trace[i].ev = "before" => last.trace[i].result = Null
    /\ (last.f # None /\ last.error = None)
       => last.result = IF \E i \in DOMAIN last.trace :
                               /\ last.trace[i].ev = "after"
                               /\ last.trace[i].action.kind = "setres"
                        THEN HookResult
                        ELSE BackendCalls[1].result

\* A get that found a stored record, whose after hook replaced the result.
C10_Witness ==
    /\ last.f = "get" /\ last.error = None
    /\ BackendCalls[1].result = Rec("1", "ana")
    /\ Ran("setres")
    /\ last.result = HookResult
    /\ Len(Hooked("before")) = 1

\* The last call ended with the exception of a before hook.
BeforeRaised ==
    /\ last.error = "HookError"
    /\ last.trace # <<>>
    /\ last.trace[Len(last.trace)].ev = "before"

\* C11: when a before hook raises, the caller gets that error, no later
\* before hook runs, the backend operation is not invoked and the store is
\* unchanged, and no after hook runs; the before hooks that ran before the
\* failing one have run (nothing is rolled back).
C11_BeforeHookRaises ==
    (last.f # None /\ \E i \in DOMAIN last.trace :
                         /\ last.trace[i].ev = "before"
                         /\ last.trace[i].action.kind = "raise")
    => /\ last.error = "HookError"
       /\ last.trace[Len(last.trace)].action.kind = "raise"
       /\ \A i \in DOMAIN last.trace : last.trace[i].ev = "before"
       /\ ~last.changed
       /\ \A i \in 1..(Len(last.trace) - 1) : last.trace[i].action.kind # "raise"
       /\ EventIds(last.trace)
            = SubSeq(ActionIds(SortByPriority(Applicable(last.pipeline.before, last.name))),
                     1, Len(last.trace))

\* A set with two before hooks: the first replaced the arguments, the
\* second raised; nothing was stored under either key.
C11_Witness ==
    /\ last.f = "set" /\ BeforeRaised
    /\ Len(last.trace) = 2
    /\ last.trace[1].action.kind = "setarg"
    /\ store["b1"]["users"]["1"] = Null /\ store["b1"]["users"]["2"] = Null
    /\ Len(last.pipeline.before) = 2

\* A record satisfies a query when each field of the query holds the expected
\* value or passes the predicate.
Satisfies(value, query) ==
    \A f \in Fields :
        \/ query[f] = Absent
        \/ query[f] = IsNoneFn /\ DictGet(value, f) = None
        \/ query[f] \notin {Absent, IsNoneFn} /\ value[f] = query[f]

\* The records stored in the collection of the last call, in key order.
Stored ==
    LET keys == SelectSeq(KeyOrder,
                    LAMBDA key : store[last.protocol][last.name][key] # Null)
    IN [i \in DOMAIN keys |-> store[last.protocol][last.name][keys[i]]]

EmptyQuery == [f \in Fields |-> Absent]

\* C12: when no index of the collection is a hit for the query, search
\* returns the stored records of the collection that satisfy every field of
\* the whole query, each once, in backend key order; the empty query hits no
\* index and returns every record.
C12_FullScan ==
    last.f = "search" =>
        /\ last.query = EmptyQuery => last.hits = <<>> /\ last.results = Stored
        /\ last.hits = <<>> =>
              last.results = SelectSeq(Stored, LAMBDA value : Satisfies(value, last.query))

\* Both records are stored, an index over _id and name is registered, and a
\* search by _id alone hit no index and returned the one matching record.
C12_Witness ==
    /\ last.f = "search" /\ last.hits = <<>>
    /\ indexes # <<>> /\ indexes[1] = NewIndex("users", {PRIMARY_KEY, "name"})
    /\ last.query = Rec("1", Absent)
    /\ Len(Stored) = 2
    /\ last.results = <<Stored[1]>>

\* The query holds exactly the one field of some index of the collection.
CoveredBySingleField ==
    \E i \in DOMAIN indexes :
        /\ indexes[i].cache_name = last.name
        /\ Cardinality(indexes[i].keys) = 1
        /\ QueryKeys(last.query) = indexes[i].keys

Range(seq) == {seq[i] : i \in DOMAIN seq}

\* C13: when a single-field index covers the whole query, search returns the
\* set of stored records that satisfy the query, the set a full scan filtered
\* by the query returns, and fetches no key from the backend twice.
C13_SingleFieldIndex ==
    (last.f = "search" /\ CoveredBySingleField) =>
        /\ last.hits # <<>>
        /\ Range(last.results) = {value \in Range(Stored) : Satisfies(value, last.query)}
        /\ Cardinality(Range(last.fetched)) = Len(last.fetched)
        /\ Len(last.results) = Cardinality(Range(last.results))

\* An index over name is registered, ana is stored under 1 and a record
\* without name under 2, and a search for name ana fetched key 1 only.
C13_Witness ==
    /\ last.f = "search" /\ CoveredBySingleField
    /\ last.query = Rec(Absent, "ana")
    /\ Len(Stored) = 2
    /\ last.results = <<Rec("1", "ana")>>
    /\ last.fetched = <<"1">>

\* C18: the hit indexes of a search are the indexes of the collection that
\* share a field with the query and either cover one field or share a field
\* other than the primary key; the empty query hits none.
C18_HitIndexes ==
    last.f = "search" =>
        /\ last.hits = SelectSeq(indexes, LAMBDA index :
              /\ index.cache_name = last.name
              /\ index.keys \cap QueryKeys(last.query) # {}
              /\ \/ Cardinality(index.keys) = 1
                 \/ \E f \in index.keys \cap QueryKeys(last.query) : f # PRIMARY_KEY)
        /\ last.query = EmptyQuery => last.hits = <<>>

\* A search by _id alone with an index over _id and name and an index over
\* _id: only the second is a hit.
C18_Witness ==
    /\ last.f = "search"
    /\ last.query = Rec("1", Absent)
    /\ indexes = <<NewIndex("users", {PRIMARY_KEY, "name"}), NewIndex("users", {PRIMARY_KEY})>>
    /\ last.hits = <<NewIndex("users", {PRIMARY_KEY})>>

\* C19: a search runs no hook and leaves the backend as it was; each record
\* it fetched is the backend's record.
C19_SearchNoPipeline ==
    last.f = "search" =>
        /\ last.trace = <<>>
        /\ last.error = None
        /\ ~last.changed
        /\ Len(last.returned) = Len(last.fetched)
        /\ \A i \in DOMAIN last.fetched :
              last.returned[i] = store[last.protocol][last.name][last.fetched[i]]

\* A hook that replaces the result is registered after get, and a search
\* fetched a record and returned it as stored.
C19_Witness ==
    /\ last.f = "search"
    /\ Len(pipes["Cache"]["get"].after) = 1
    /\ last.fetched # <<>>
    /\ last.results # <<>>
    /\ last.results[1] # HookResult


\* The outcome of one get of the last call's collection through the get
\* pipeline of the last call.
OneGet(key) ==
    wrap_action(last.pipeline,
        PipelineContext("get", last.protocol, store, last.name, key, Null, Null))

\* The number of events of the trace that the hook with this id caused.
Fired(id) ==
    Len(SelectSeq(last.trace, LAMBDA e : e.ev \in {"before", "after"} /\ e.action.id = id))

\* C14: all yields, in backend key order, the values that get returns for
\* each key the backend enumerates, without those that are None; each get
\* goes through the get pipeline, so each get hook fires once for each key.
C14_All ==
    (last.f = "all" /\ last.error = None) =>
        /\ last.fetched = SelectSeq(KeyOrder,
                              LAMBDA key : store[last.protocol][last.name][key] # Null)
        /\ Len(last.returned) = Len(last.fetched)
        /\ \A i \in DOMAIN last.fetched :
              /\ OneGet(last.fetched[i]).error = None
              /\ last.returned[i] = OneGet(last.fetched[i]).result
        /\ last.results = SelectSeq(last.returned, LAMBDA value : value # Null)
        /\ \A i \in DOMAIN last.pipeline.before :
              Fired(last.pipeline.before[i].id) = Len(last.fetched)
        /\ \A i \in DOMAIN last.pipeline.after :
              Fired(last.pipeline.after[i].id) = Len(last.fetched)
        /\ Len(BackendCalls) = Len(last.fetched)
        /\ ~last.changed

\* Only key 1 is stored and a before hook of get turns every get to key 2:
\* the hook fired once, get returned None and all yielded nothing.
C14_Witness ==
    /\ last.f = "all" /\ last.error = None
    /\ last.fetched = <<"1">>
    /\ Len(last.pipeline.before) = 1
    /\ Len(Hooked("before")) = 1
    /\ last.returned = <<Null>>
    /\ last.results = <<>>


\* The classes on whose pipelines the hooks of the events were registered.
Registrants(events) == {hist.regs[events[i].action.id] : i \in DOMAIN events}

HookEvents == SelectSeq(last.trace, LAMBDA e : e.ev \in {"before", "after"})

\* The hooks of every list of the manager of a class.
HooksOf(mpipes) ==
    UNION {{mpipes[item].before[i].id : i \in DOMAIN mpipes[item].before}
             \cup {mpipes[item].after[i].id : i \in DOMAIN mpipes[item].after} :
           item \in Present(mpipes)}

\* C15: the pipelines of the base class hold the hooks registered on the
\* base class and no other, so a registration on the subclass leaves them as
\* they were; and a call on an instance of the base class runs the hooks of
\* the base class's pipeline and no hook registered on the subclass.
C15_BaseUntouched ==
    /\ HooksOf(pipes["Cache"]) = {id \in DOMAIN hist.regs : hist.regs[id] = "Cache"}
    /\ (last.f # None /\ last.cls = "Cache")
       => /\ last.error = None
          /\ Registrants(HookEvents) \subseteq {"Cache"}
          /\ EventIds(Hooked("before"))
               = ActionIds(SortByPriority(pipes["Cache"][last.f].before))
          /\ EventIds(Hooked("after"))
               = ActionIds(SortByPriority(pipes["Cache"][last.f].after))

\* Hooks are registered before get on the base class and on the subclass,
\* and a get on the instance of the base class ran the base class's hook
\* only.
C15_Witness ==
    /\ last.f = "get" /\ last.cls = "Cache"
    /\ Len(pipes["Cache"]["get"].before) = 1
    /\ Len(pipes["Sub"]["get"].before) = 1
    /\ Len(HookEvents) = 1

\* C16: the names the parent manager held when the child manager was built
\* are mirrored in the child with the parent's pipeline as parent; a name
\* looked up in the parent later is not: the child's pipeline of that name
\* has no parent, and a call through it runs the child's own hooks only.
C16_LazyNotMirrored ==
    Defined("Sub") =>
        /\ Ops \subseteq hist.mirrored
        /\ \A item \in Items :
              /\ item \in hist.mirrored
                 => /\ pipes["Sub"][item].exists
                    /\ pipes["Sub"][item].parent_pipe = "Cache"
              /\ (item \notin hist.mirrored /\ pipes["Sub"][item].exists)
                 => pipes["Sub"][item].parent_pipe = NoParent
        /\ (last.f # None /\ last.cls = "Sub" /\ last.f \notin hist.mirrored)
           => /\ last.error = None
              /\ last.pipeline.parent_pipe = NoParent
              /\ Registrants(HookEvents) \subseteq {"Sub"}
              /\ EventIds(Hooked("before")) = ActionIds(SortByPriority(last.pipeline.before))
              /\ EventIds(Hooked("after")) = ActionIds(SortByPriority(last.pipeline.after))

\* Sub was defined before extra was looked up in the manager of Cache; a
\* hook is registered before extra on Cache, and a call of extra on the
\* instance of Sub ran no hook.
C16_Witness ==
    /\ last.f = "extra" /\ last.cls = "Sub"
    /\ "extra" \notin hist.mirrored
    /\ pipes["Cache"]["extra"].exists
    /\ pipes["Cache"]["extra"].before # <<>>
    /\ HookEvents = <<>>
    /\ last.error = None

\* C17: a call through a child pipeline runs the applicable hooks of the
\* parent's list, by priority, and then the applicable hooks of the child's
\* own list, by priority: every parent hook before every child hook.
C17_ParentBlockFirst ==
    (last.f # None /\ last.pipeline.parent_pipe # NoParent)
    => /\ EventIds(Hooked("before"))
            = ActionIds(SortByPriority(Applicable(last.parent.before, last.name)))
              \o ActionIds(SortByPriority(Applicable(last.pipeline.before, last.name)))
       /\ EventIds(Hooked("after"))
            = ActionIds(SortByPriority(Applicable(last.parent.after, last.name)))
              \o ActionIds(SortByPriority(Applicable(last.pipeline.after, last.name)))
       /\ \A i, j \in DOMAIN last.trace :
             (/\ last.trace[i].ev = last.trace[j].ev
              /\ last.trace[i].ev \in {"before", "after"}
              /\ hist.regs[last.trace[i].action.id] = "Cache"
              /\ hist.regs[last.trace[j].action.id] = "Sub") => i < j

\* C20: a set or update that is rejected for its primary key has run the
\* applicable before hooks, runs no after hook, does not reach the backend
\* and leaves the store as it was.
C20_RejectedWrite ==
    (last.f \in {"set", "update"} /\ last.error = "ValueError")
    => /\ ~last.changed
       /\ BackendCalls = <<>>
       /\ Hooked("after") = <<>>
       /\ EventIds(Hooked("before"))
            = ActionIds(SortByPriority(Applicable(last.pipeline.before, last.name)))

\* A set under key 1 of a record whose _id is 2, with a hook before and a
\* hook after set: the before hook ran, the after hook did not.
C20_Witness ==
    /\ last.f = "set" /\ last.error = "ValueError"
    /\ last.value = Rec("2", "ana")
    /\ Len(last.pipeline.before) = 1 /\ Len(last.pipeline.after) = 1
    /\ Len(Hooked("before")) = 1
    /\ Hooked("after") = <<>>


\* C21: constructing a subclass returns an object of the subclass, and the
\* calls on that object go through the subclass's PipelineManager, whether
\* or not the base class was constructed before.
C21_SubclassInstance ==
    hist.newcls = "Sub" =>
        /\ objects[hist.newret].cls = "Sub"
        /\ instance["Sub"] = hist.newret
        /\ (last.f # None /\ last.o = hist.newret) => last.cls = "Sub"

\* The events of the actions of a pipeline and of every ancestor of it, the
\* oldest ancestor first.
RECURSIVE ChainBefore(_, _)
ChainBefore(cls, name) ==
    (IF smart.pipelines[cls].parent_pipeline = NoParent THEN <<>>
     ELSE ChainBefore(smart.pipelines[cls].parent_pipeline, name))
    \o smart_wrap_before(cls, name)

RECURSIVE ChainAfter(_, _)
ChainAfter(cls, name) ==
    (IF smart.pipelines[cls].parent_pipeline = NoParent THEN <<>>
     ELSE ChainAfter(smart.pipelines[cls].parent_pipeline, name))
    \o smart_wrap_after(cls, name)

\* C22: executing a smart_hashmap pipeline runs the applicable before
\* actions of every ancestor, the oldest first, then its own, then the main
\* function, then the after actions of every ancestor and its own.
C22_AncestorChain ==
    (smart.run.cls # None /\ smart.run.error = None)
    => smart.run.trace = ChainBefore(smart.run.cls, smart.run.name)
                           \o <<SmartEvent("main", 0)>>
                           \o ChainAfter(smart.run.cls, smart.run.name)

====
